---- MODULE Spec2Model ----
(***************************************************************************)
(* A model of cycquery's database access layer (src/cycquery/orm.py), of   *)
(* QueryInterface (src/cycquery/interface.py) and of the DatasetQuerier    *)
(* constructor (src/cycquery/base.py).  Five specifications share the      *)
(* variables: Spec (the batched-query generator run_query_batch with its   *)
(* partitioner), SpecUrl (the connection-URL builder _get_db_url), SpecDb  *)
(* (Database.__init__ and run_query), SpecQuerier (DatasetQuerier(...))    *)
(* and SpecInterface (the QueryInterface methods).                         *)
(*                                                                         *)
(* Python strings are sequences of one-character strings, so that lower(), *)
(* the substring test, quote_plus() and str(int) are computed, not         *)
(* assumed.  Python's None is the empty tuple <<>> and a present optional  *)
(* value v is <<v>>.                                                       *)
(***************************************************************************)
EXTENDS Integers, Sequences, FiniteSets

VARIABLES
    query,       \* the query handed to run_query_batch: [table, limit]
    rows,        \* the full result set of the query: rows <<index value, row no. in its group>>
    batch_size,  \* the batch_size argument
    pc,          \* position of the run_query_batch generator
    error,       \* the exception the generator has raised, "none" if none
    conditions,  \* the list of WHERE conditions computed by _query_batch_conditions
    executed,    \* log of the statements executed against the engine
    batches,     \* the batches yielded so far, in order
    requests,    \* number of next() calls the consumer has made
    urlArgs,     \* the arguments of a _get_db_url call
    urlResult,   \* what that call returned or raised
    config,      \* the DatasetQuerierConfig / constructor arguments
    env,         \* what the constructor finds outside: file, host, port, server
    db,          \* the Database object after Database(config), or NotConstructed
    rq,          \* the last Database.run_query call and its outcome
    schemasArg,  \* the schemas argument of DatasetQuerier(...)
    querier,     \* the outcome of DatasetQuerier(...), or NotConstructed
    interfaces,  \* the QueryInterface objects, in order of creation
    calls        \* log of the calls made on them, with their outcomes

vars == <<query, rows, batch_size, pc, error, conditions, executed, batches,
          requests, urlArgs, urlResult, config, env, db, rq, schemasArg,
          querier, interfaces, calls>>

batchVars == <<query, rows, batch_size, pc, error, conditions, executed,
               batches, requests>>

urlVars == <<urlArgs, urlResult>>

dbVars == <<config, env, db, rq>>

querierVars == <<schemasArg, querier>>

interfaceVars == <<interfaces, calls>>

\* an object not (yet) constructed, a call not (yet) made
NotConstructed == [state |-> "none"]
NotCalled == [state |-> "none"]

\* the variables of the Database and DatasetQuerier constructors at rest
ConstructorsIdle ==
    /\ config = <<>>
    /\ env = <<>>
    /\ db = NotConstructed
    /\ rq = NotCalled
    /\ schemasArg = <<>>
    /\ querier = NotConstructed

\* no QueryInterface exists
InterfaceIdle ==
    /\ interfaces = <<>>
    /\ calls = <<>>

(***************************************************************************)
(* Bounds of the model.                                                    *)
(***************************************************************************)
NegSpan == 1
PosSpan == 2
MaxGroupRows == 2
MaxBatchSize == 3
MaxTableRows == 2
MaxLimit == 2

IndexValues == (0 - NegSpan)..PosSpan

(***************************************************************************)
(* Strings.                                                                *)
(***************************************************************************)
UpperCase == <<"A","B","C","D","E","F","G","H","I","J","K","L","M",
               "N","O","P","Q","R","S","T","U","V","W","X","Y","Z">>
LowerCase == <<"a","b","c","d","e","f","g","h","i","j","k","l","m",
               "n","o","p","q","r","s","t","u","v","w","x","y","z">>
Digits == <<"0","1","2","3","4","5","6","7","8","9">>

IsUpper(c) == \E i \in 1..Len(UpperCase) : UpperCase[i] = c

\* str.lower(), character by character
LowerChar(c) ==
    IF IsUpper(c)
    THEN LowerCase[CHOOSE i \in 1..Len(UpperCase) : UpperCase[i] = c]
    ELSE c

lower(s) == [i \in 1..Len(s) |-> LowerChar(s[i])]

\* the Python test `sub in s` on strings
Contains(sub, s) ==
    \E i \in 0..(Len(s) - Len(sub)) : SubSeq(s, i + 1, i + Len(sub)) = sub

\* str(n) for an int
RECURSIVE DigitsOf(_)
DigitsOf(n) ==
    IF n < 10 THEN <<Digits[n + 1]>>
    ELSE DigitsOf(n \div 10) \o <<Digits[(n % 10) + 1]>>

str_int(n) == IF n < 0 THEN <<"-">> \o DigitsOf(0 - n) ELSE DigitsOf(n)

NoneText == <<"N","o","n","e">>

\* str(x) for an Optional[int]
str_opt(opt) == IF opt = <<>> THEN NoneText ELSE str_int(opt[1])

\* ord() of the punctuation characters the model uses
Punctuation == {<<" ", 32>>, <<"#", 35>>, <<"%", 37>>, <<"+", 43>>,
                <<"/", 47>>, <<":", 58>>, <<"@", 64>>}

ord(c) == (CHOOSE p \in Punctuation : p[1] = c)[2]

HexDigits == <<"0","1","2","3","4","5","6","7","8","9","A","B","C","D","E","F">>

\* '%{:02X}'.format(n)
PercentHex(n) == <<"%", HexDigits[(n \div 16) + 1], HexDigits[(n % 16) + 1]>>

InSeq(c, s) == \E i \in 1..Len(s) : s[i] = c

\* urllib's always-safe characters: letters, digits and "_.-~"
AlwaysSafe(c) ==
    \/ InSeq(c, UpperCase) \/ InSeq(c, LowerCase) \/ InSeq(c, Digits)
    \/ c \in {"_", ".", "-", "~"}

\* faulty variant: the password is inserted as it is
QuotePlusNothing(s) == s

\* urllib.parse.quote_plus(s): a space becomes "+", an always-safe character
\* stays, every other character becomes %XX
RECURSIVE quote_plus(_)
quote_plus(s) ==
    IF s = <<>> THEN <<>>
    ELSE (IF Head(s) = " " THEN <<"+">>
          ELSE IF AlwaysSafe(Head(s)) THEN <<Head(s)>>
          ELSE PercentHex(ord(Head(s))))
         \o quote_plus(Tail(s))

(***************************************************************************)
(* The query and its rendering.  str(query) is the SQL text of the select: *)
(* keywords in upper case, the table name as declared, and a LIMIT clause  *)
(* when the query has one.                                                 *)
(***************************************************************************)
TableVisits == <<"v","i","s","i","t","s">>
TableLimits == <<"l","i","m","i","t","s">>
SelectFrom == <<"S","E","L","E","C","T"," ","*"," ","F","R","O","M"," ">>
LimitClause == <<" ","L","I","M","I","T"," ",":","p">>
LimitWord == <<"l","i","m","i","t">>

Queries == [table : {TableVisits, TableLimits}, limit : BOOLEAN]

StrQuery(q) == SelectFrom \o q.table \o (IF q.limit THEN LimitClause ELSE <<>>)

\* faulty variant: the test without .lower()
IsLimitedCaseSensitive(q) == Contains(LimitWord, StrQuery(q))

\* "limit" in str(query).lower()
IsLimited(q) == Contains(LimitWord, lower(StrQuery(q)))

(***************************************************************************)
(* The result set.  A row is <<v, k>>: the k-th row whose index column is  *)
(* v.  Index values are integers (dividers are taken with int()).          *)
(***************************************************************************)
GroupCounts == UNION {[S -> 1..MaxGroupRows] : S \in SUBSET IndexValues}

RowsOf(g) == {<<v, k>> : v \in DOMAIN g, k \in 1..MaxGroupRows} \
             {<<v, k>> \in (DOMAIN g) \X (1..MaxGroupRows) : k > g[v]}

ResultSets == {RowsOf(g) : g \in GroupCounts}

ValuesOf(rs) == {r[1] : r \in rs}
(***************************************************************************)
(* _compute_query_dividers (orm.py 393-426).                               *)
(***************************************************************************)
\* select(col, func.count(col)).group_by(col): one count per distinct value
count_data(rs) == [v \in ValuesOf(rs) |-> Cardinality({r \in rs : r[1] = v})]

\* count_data["count"].max(); only evaluated on a non-empty frame here
MaxOf(cd) == CHOOSE m \in {cd[v] : v \in DOMAIN cd} : \A v \in DOMAIN cd : cd[v] <= m

\* faulty variant: rejects a batch size equal to the largest group
CapacityExceededInclusive(cd, maximum) == DOMAIN cd # {} /\ maximum <= MaxOf(cd)

\* `maximum < max_count`.  On an empty frame max() is NaN, and every
\* comparison with NaN is False.
CapacityExceeded(cd, maximum) == DOMAIN cd # {} /\ maximum < MaxOf(cd)

\* count_data.sort_values(index_col): the distinct values in ascending order
RECURSIVE sort_values(_)
sort_values(S) ==
    IF S = {} THEN <<>>
    ELSE LET m == CHOOSE x \in S : \A y \in S : x <= y
         IN  <<m>> \o sort_values(S \ {m})

\* count_data["count"].cumsum() over the sorted frame
RECURSIVE SumTo(_, _, _)
SumTo(cd, vals, i) == IF i = 0 THEN 0 ELSE cd[vals[i]] + SumTo(cd, vals, i - 1)

cumsum(cd, vals) == [i \in 1..Len(vals) |-> SumTo(cd, vals, i)]

\* the for loop of lines 419-424.  Python's i (0-based) and the 1-based j
\* here satisfy j = i + 1: the loop variable cumsum is cs[j + 1], and
\* iloc[i] is position j.
RECURSIVE DividerLoop(_, _, _, _, _, _)
DividerLoop(vals, cs, maximum, j, last_sum, dividers) ==
    IF j > Len(vals) - 1 THEN dividers
    ELSE IF cs[j + 1] - last_sum > maximum
         THEN DividerLoop(vals, cs, maximum, j + 1, cs[j], Append(dividers, vals[j]))
         ELSE DividerLoop(vals, cs, maximum, j + 1, last_sum, dividers)

\* faulty variant: an empty frame gives an empty divider list instead of raising
ComputeDividersNoEmptyCheck(rs, maximum) ==
    LET cd == count_data(rs)
        vals == sort_values(DOMAIN cd)
        cs == cumsum(cd, vals)
    IN  IF CapacityExceeded(cd, maximum)
        THEN [raised |-> "ValueError: Maximum must be at least", dividers |-> <<>>]
        ELSE IF Len(vals) = 0
        THEN [raised |-> "none", dividers |-> <<>>]
        ELSE [raised |-> "none",
              dividers |-> DividerLoop(vals, cs, maximum, 1, 0, <<vals[1]>>)]

_compute_query_dividers(rs, maximum) ==
    LET cd == count_data(rs)
        vals == sort_values(DOMAIN cd)
        cs == cumsum(cd, vals)
    IN  IF CapacityExceeded(cd, maximum)
        THEN [raised |-> "ValueError: Maximum must be at least", dividers |-> <<>>]
        ELSE IF Len(vals) = 0
        THEN [raised |-> "ValueError: Query is empty", dividers |-> <<>>]
        ELSE [raised |-> "none",
              dividers |-> DividerLoop(vals, cs, maximum, 1, 0, <<vals[1]>>)]
(***************************************************************************)
(* _range_condition and the while loop of _query_batch_conditions          *)
(* (orm.py 428-451).  A condition is [lo, hi]: `column >= lo`, and also    *)
(* `column < hi[1]` when hi is not <<>>.                                   *)
(***************************************************************************)
\* Python truth value of an Optional[int]: None and 0 are false
Truthy(opt) == opt # <<>> /\ opt[1] # 0

\* faulty variant: the lower bound is exclusive
RangeConditionExclusive(start_id, end_id) ==
    IF Truthy(end_id)
    THEN [lo |-> start_id + 1, hi |-> end_id]
    ELSE [lo |-> start_id + 1, hi |-> <<>>]

_range_condition(start_id, end_id) ==
    IF Truthy(end_id)
    THEN [lo |-> start_id, hi |-> end_id]
    ELSE [lo |-> start_id, hi |-> <<>>]

\* while dividers: start = dividers.pop(0); end = dividers[0] if dividers else None
ConditionsOf(dividers) ==
    [k \in 1..Len(dividers) |->
        _range_condition(dividers[k],
                         IF k < Len(dividers) THEN <<dividers[k + 1]>> ELSE <<>>)]

_query_batch_conditions(rs, batch_size_) ==
    LET res == _compute_query_dividers(rs, batch_size_)
    IN  [raised |-> res.raised, conditions |-> ConditionsOf(res.dividers)]

\* whether index value v passes the WHERE condition
Satisfies(cond, v) == v >= cond.lo /\ (cond.hi = <<>> \/ v < cond.hi[1])

\* the rows of rs in ascending (index value, row number) order up to r
RankIn(r, S) ==
    Cardinality({x \in S : x[1] < r[1] \/ (x[1] = r[1] /\ x[2] <= r[2])})

\* faulty variant: the batch is cut at a fixed number of rows
ReadSqlTruncated(cond, rs) ==
    LET hit == {r \in rs : Satisfies(cond, r[1])}
    IN  {r \in hit : RankIn(r, hit) <= 1}

\* pd.read_sql_query(sess_query.filter(condition).subquery(), engine)
ReadSql(cond, rs) == {r \in rs : Satisfies(cond, r[1])}
(***************************************************************************)
(* Database.run_query_batch (orm.py 453-496) is a generator function:      *)
(* calling it runs none of its body; each next() runs the body up to the   *)
(* next yield, to the end, or to an exception.                             *)
(***************************************************************************)
CountStatement(req) == [op |-> "count", cond |-> 0, request |-> req]
FetchStatement(k, req) == [op |-> "fetch", cond |-> k, request |-> req]

\* faulty variant: all batches are fetched up front, on the first request
FetchesAllUpFront(conds, k) ==
    IF k = 1 THEN [i \in 1..Len(conds) |-> i] ELSE <<>>

\* the conditions whose read_sql_query runs when the for loop is resumed
\* into its k-th iteration: that iteration's own, and no other
FetchesOnResume(conds, k) == IF k <= Len(conds) THEN <<k>> ELSE <<>>

\* the for loop of lines 494-496 from its k-th iteration to the next yield,
\* or to the end of the generator
LoopStep(conds, k, log) ==
    LET F == FetchesOnResume(conds, k)
    IN  /\ executed' = log \o [i \in 1..Len(F) |-> FetchStatement(F[i], requests + 1)]
        /\ IF k <= Len(conds)
           THEN /\ batches' = Append(batches, ReadSql(conds[k], rows))
                /\ pc' = "yielded"
           ELSE /\ batches' = batches
                /\ pc' = "done"

\* QueryInterface.run(batch_mode=True): the generator object is created
\* and kept; nothing is executed
run ==
    /\ pc = "idle"
    /\ pc' = "created"
    /\ UNCHANGED <<query, rows, batch_size, error, conditions, executed,
                   batches, requests, urlVars, dbVars, querierVars,
                   interfaceVars>>

\* the consumer's first next(): the body from its start to the first yield
FirstNext ==
    /\ pc = "created"
    /\ requests' = requests + 1
    /\ IF IsLimited(query)
       THEN /\ pc' = "error"
            /\ error' = "NotImplementedError"
            /\ UNCHANGED <<conditions, executed, batches>>
       ELSE LET res == _query_batch_conditions(rows, batch_size)
                log == Append(executed, CountStatement(requests + 1))
            IN  IF res.raised # "none"
                THEN /\ pc' = "error"
                     /\ error' = res.raised
                     /\ executed' = log
                     /\ UNCHANGED <<conditions, batches>>
                ELSE /\ conditions' = res.conditions
                     /\ error' = error
                     /\ LoopStep(res.conditions, 1, log)
    /\ UNCHANGED <<query, rows, batch_size, urlVars, dbVars, querierVars,
                   interfaceVars>>

\* a later next(): the generator resumes after its yield
ResumeNext ==
    /\ pc = "yielded"
    /\ requests' = requests + 1
    /\ LoopStep(conditions, Len(batches) + 1, executed)
    /\ UNCHANGED <<query, rows, batch_size, error, conditions, urlVars,
                   dbVars, querierVars, interfaceVars>>

NoUrlCall == [kind |-> "none", value |-> <<>>]

Init ==
    /\ query \in Queries
    /\ rows \in ResultSets
    /\ batch_size \in 0..MaxBatchSize
    /\ pc = "idle"
    /\ error = "none"
    /\ conditions = <<>>
    /\ executed = <<>>
    /\ batches = <<>>
    /\ requests = 0
    /\ urlArgs = <<>>
    /\ urlResult = NoUrlCall
    /\ ConstructorsIdle
    /\ InterfaceIdle

Next == run \/ FirstNext \/ ResumeNext

Spec == Init /\ [][Next]_vars
(***************************************************************************)
(* Properties of the batched query.                                        *)
(***************************************************************************)
BatchIndexes == 1..Len(batches)

RowsWithValue(S, v) == {r \in S : r[1] = v}

\* the largest number of rows sharing one index value; 0 for no rows
LargestGroup ==
    IF rows = {} THEN 0
    ELSE CHOOSE n \in 1..Cardinality(rows) :
            /\ \E v \in ValuesOf(rows) : Cardinality(RowsWithValue(rows, v)) = n
            /\ \A v \in ValuesOf(rows) : Cardinality(RowsWithValue(rows, v)) <= n

\* the partitioner was invoked: its grouped count query has been executed
PartitionerRan == \E i \in 1..Len(executed) : executed[i].op = "count"

FetchLog == SelectSeq(executed, LAMBDA e : e.op = "fetch")

\* C1: the batches yielded by run_query_batch are pairwise disjoint: no
\* index value appears in two different batches, for every set of integer
\* index values, negative values and 0 included.
C1_BatchesPairwiseDisjoint ==
    \A i, j \in BatchIndexes :
        i # j => ValuesOf(batches[i]) \cap ValuesOf(batches[j]) = {}

C3_NoBatchExceedsBatchSize ==
    \A i \in BatchIndexes : Cardinality(batches[i]) <= batch_size

\* C4: once the partitioner has run, batching has failed with the capacity
\* error exactly if the largest per-index-value row count exceeds
\* batch_size (a batch_size equal to it raises no capacity error), and the
\* capacity error comes before any batch is fetched or yielded.
C4_CapacityError ==
    /\ PartitionerRan =>
          (error = "ValueError: Maximum must be at least"
              <=> LargestGroup > batch_size)
    /\ LargestGroup > batch_size => batches = <<>> /\ FetchLog = <<>>

C4_Witness ==
    /\ PartitionerRan
    /\ LargestGroup > batch_size
    /\ pc = "error"
    /\ error = "ValueError: Maximum must be at least"

\* C5: batching a result of zero rows fails with the empty-result error:
\* once the partitioner has run on zero rows the generator has raised
\* 'Query is empty', no other error, and it never ends as an iteration of
\* zero batches.
C5_EmptyResultError ==
    (rows = {} /\ PartitionerRan) =>
        /\ pc = "error"
        /\ error = "ValueError: Query is empty"
        /\ batches = <<>>

C5_Witness ==
    /\ rows = {}
    /\ PartitionerRan
    /\ error = "ValueError: Query is empty"

\* C6: on a query with a LIMIT clause the first next() raises
\* NotImplementedError, and neither the count query nor any batch fetch is
\* ever executed, nor any batch yielded.
C6_LimitRejectedFirst ==
    query.limit =>
        /\ executed = <<>>
        /\ batches = <<>>
        /\ pc \in {"idle", "created", "error"}
        /\ pc = "error" => error = "NotImplementedError"

C6_Witness ==
    /\ query.limit
    /\ requests = 1
    /\ pc = "error"
    /\ error = "NotImplementedError"

\* C7: no index-column group is split: every batch holds all the rows of
\* the result with index value v, or none of them.
C7_NoGroupSplit ==
    \A i \in BatchIndexes : \A v \in IndexValues :
        \/ RowsWithValue(batches[i], v) = RowsWithValue(rows, v)
        \/ RowsWithValue(batches[i], v) = {}

C7_Witness ==
    \E i \in BatchIndexes : \E v, w \in ValuesOf(rows) :
        /\ Cardinality(RowsWithValue(rows, v)) >= 2
        /\ RowsWithValue(batches[i], v) = RowsWithValue(rows, v)
        /\ RowsWithValue(batches[i], w) = {}

\* C8: batch iteration is lazy: the fetch of the k-th batch is executed
\* during the consumer's k-th request and not earlier, fetches happen in
\* boundary order, creating the generator executes nothing, and no fetch
\* beyond the number of requests made is ever executed.
C8_LazyFetch ==
    /\ requests = 0 => executed = <<>>
    /\ Len(FetchLog) <= requests
    /\ Len(FetchLog) = Len(batches)
    /\ \A k \in 1..Len(FetchLog) :
          FetchLog[k].cond = k /\ FetchLog[k].request = k

C8_Witness ==
    /\ pc = "yielded"
    /\ requests = 2
    /\ Len(conditions) >= 3
    /\ Len(FetchLog) = 2
(***************************************************************************)
(* _get_db_url (orm.py 42-98).                                             *)
(***************************************************************************)
Postgresql == <<"p","o","s","t","g","r","e","s","q","l">>
Mysql == <<"m","y","s","q","l">>
Sqlite == <<"s","q","l","i","t","e">>

SupportedNames == {Postgresql, Mysql, Sqlite}

\* faulty variant: the engine name is compared as given
SupportedExactCase(dbms) == dbms \in SupportedNames

\* dbms.lower() in ["postgresql", "mysql", "sqlite"]
Supported(dbms) == lower(dbms) \in SupportedNames

Returned(text) == [kind |-> "value", value |-> text]
Raised(exc) == [kind |-> exc, value |-> <<>>]

_get_db_url(dbms, user, pwd, host, port, database) ==
    IF ~Supported(dbms) THEN Raised("ValueError")
    ELSE IF lower(dbms) = Sqlite
    THEN Returned(<<"s","q","l","i","t","e",":","/","/","/">> \o database)
    ELSE Returned(dbms \o <<":","/","/">> \o user \o <<":">> \o quote_plus(pwd)
                  \o <<"@">> \o host \o <<":">> \o str_opt(port)
                  \o <<"/">> \o database)

(***************************************************************************)
(* Calls of _get_db_url on a range of arguments.                           *)
(***************************************************************************)
DbmsNames ==
    { Postgresql, Mysql, Sqlite,
      <<"S","Q","L","I","T","E">>, <<"S","q","l","i","t","e">>,
      <<"M","y","S","Q","L">>, <<"P","o","s","t","g","r","e","S","Q","L">>,
      <<"s","q","l","i","t","e","3">>, <<"o","r","a","c","l","e">>,
      <<"s","q","l">>, <<>> }
UserNames == { <<>>, <<"u","s","e","r">> }
Passwords == { <<>>, <<"p","a","s","s">>, <<"p","@","s","s">>,
               <<"a"," ","b">>, <<"x","/","%","+",":","#">>, <<"A","_",".","-","~","9">> }
HostNames == { <<>>, <<"d","b","h","o","s","t">> }
Ports == { <<>>, <<0>>, <<5432>> }
DatabaseNames == { <<>>, <<"m","y",".","d","b">> }

UrlArguments ==
    [dbms : DbmsNames, user : UserNames, pwd : Passwords, host : HostNames,
     port : Ports, database : DatabaseNames]

InitUrl ==
    /\ urlArgs \in UrlArguments
    /\ urlResult = NoUrlCall
    /\ query = [table |-> TableVisits, limit |-> FALSE]
    /\ rows = {}
    /\ batch_size = 0
    /\ pc = "idle"
    /\ error = "none"
    /\ conditions = <<>>
    /\ executed = <<>>
    /\ batches = <<>>
    /\ requests = 0
    /\ ConstructorsIdle
    /\ InterfaceIdle

Call_get_db_url ==
    /\ urlResult = NoUrlCall
    /\ urlResult' = _get_db_url(urlArgs.dbms, urlArgs.user, urlArgs.pwd,
                                urlArgs.host, urlArgs.port, urlArgs.database)
    /\ UNCHANGED <<urlArgs, batchVars, dbVars, querierVars, interfaceVars>>

NextUrl == Call_get_db_url

SpecUrl == InitUrl /\ [][NextUrl]_vars

(***************************************************************************)
(* Properties of _get_db_url.                                              *)
(***************************************************************************)
UrlCalled == urlResult # NoUrlCall

\* two characters that are equal, or the two cases of one letter
SameLetter(a, b) ==
    \/ a = b
    \/ \E i \in 1..Len(UpperCase) : {a, b} = {UpperCase[i], LowerCase[i]}

EqualIgnoringCase(s, t) ==
    Len(s) = Len(t) /\ \A i \in 1..Len(s) : SameLetter(s[i], t[i])

NamesEngine(dbms, name) == EqualIgnoringCase(dbms, name)

\* the decimal text of the ports called with
PortText(port) ==
    CASE port = <<>> -> <<"N","o","n","e">>
      [] port = <<0>> -> <<"0">>
      [] port = <<5432>> -> <<"5","4","3","2">>

UrlBefore(a) == a.dbms \o <<":","/","/">> \o a.user \o <<":">>
UrlAfter(a) == <<"@">> \o a.host \o <<":">> \o PortText(a.port) \o <<"/">> \o a.database

NetworkEngineCall ==
    /\ UrlCalled
    /\ NamesEngine(urlArgs.dbms, Postgresql) \/ NamesEngine(urlArgs.dbms, Mysql)

SqliteCall == UrlCalled /\ NamesEngine(urlArgs.dbms, Sqlite)

SqliteUrl(a) == <<"s","q","l","i","t","e",":","/","/","/">> \o a.database

\* C9 as stated: the URL of a network engine holds the password as given.
C9_UrlHoldsPasswordAsGiven ==
    /\ SqliteCall => urlResult = Returned(SqliteUrl(urlArgs))
    /\ NetworkEngineCall =>
          urlResult = Returned(UrlBefore(urlArgs) \o urlArgs.pwd \o UrlAfter(urlArgs))

\* the text of a %XX escape, or of one character, back to the character
HexValue(c) == (CHOOSE i \in 1..Len(HexDigits) : HexDigits[i] = c) - 1

IsHex(c) == InSeq(c, HexDigits)

RECURSIVE unquote_plus(_)
unquote_plus(e) ==
    IF e = <<>> THEN <<>>
    ELSE IF Head(e) = "+" THEN <<" ">> \o unquote_plus(Tail(e))
    ELSE IF Head(e) = "%" /\ Len(e) >= 3 /\ IsHex(e[2]) /\ IsHex(e[3])
    THEN LET code == 16 * HexValue(e[2]) + HexValue(e[3])
         IN  <<(CHOOSE p \in Punctuation : p[2] = code)[1]>>
             \o unquote_plus(SubSeq(e, 4, Len(e)))
    ELSE <<Head(e)>> \o unquote_plus(Tail(e))

\* the length of the encoding: one character for a space or an always-safe
\* character, three for any other
RECURSIVE EncodedLen(_)
EncodedLen(s) ==
    IF s = <<>> THEN 0
    ELSE (IF Head(s) = " " \/ AlwaysSafe(Head(s)) THEN 1 ELSE 3) + EncodedLen(Tail(s))

\* C9 (amended): for sqlite the URL is 'sqlite:///<database>'; for the
\* other supported engines it is '<dbms>://<user>:<E>@<host>:<port>/<database>'
\* with a missing port rendered 'None', where E is the password URL-encoded:
\* E holds only always-safe characters, '+' and %XX escapes, decodes to the
\* password, and escapes nothing that is always-safe.
C9_UrlHoldsEncodedPassword ==
    /\ SqliteCall => urlResult = Returned(SqliteUrl(urlArgs))
    /\ NetworkEngineCall =>
          LET url == urlResult.value
              before == UrlBefore(urlArgs)
              after == UrlAfter(urlArgs)
              E == SubSeq(url, Len(before) + 1, Len(url) - Len(after))
          IN  /\ urlResult.kind = "value"
              /\ Len(url) >= Len(before) + Len(after)
              /\ SubSeq(url, 1, Len(before)) = before
              /\ SubSeq(url, Len(url) - Len(after) + 1, Len(url)) = after
              /\ \A i \in 1..Len(E) : AlwaysSafe(E[i]) \/ E[i] \in {"+", "%"}
              /\ unquote_plus(E) = urlArgs.pwd
              /\ Len(E) = EncodedLen(urlArgs.pwd)

C9_Witness ==
    /\ NetworkEngineCall
    /\ urlArgs.port = <<>>
    /\ InSeq("@", urlArgs.pwd)
    /\ urlResult.kind = "value"
    /\ urlResult.value # UrlBefore(urlArgs) \o urlArgs.pwd \o UrlAfter(urlArgs)

\* C10: _get_db_url raises ValueError exactly for the engine names that are
\* none of 'postgresql', 'mysql', 'sqlite' under case-insensitive
\* comparison, and a name that is 'sqlite' up to case yields the URL that
\* 'sqlite' yields.
C10_EngineNameIgnoresCase ==
    UrlCalled =>
        /\ urlResult.kind = "ValueError"
              <=> ~\E name \in {Postgresql, Mysql, Sqlite} : NamesEngine(urlArgs.dbms, name)
        /\ urlResult.kind \in {"value", "ValueError"}
        /\ SqliteCall => urlResult = Returned(SqliteUrl(urlArgs))

C10_Witness ==
    /\ UrlCalled
    /\ urlArgs.dbms = <<"S","Q","L","I","T","E">>
    /\ urlResult = Returned(SqliteUrl(urlArgs))
(***************************************************************************)
(* Database.__init__ (orm.py 149-214, 216-254).  The constructor is one    *)
(* call; what it does, in order, is kept in the object's `events`.         *)
(***************************************************************************)
Oracle == <<"o","r","a","c","l","e">>

ConfigDbms == {Sqlite, <<"S","Q","L","I","T","E">>, Postgresql, Mysql, Oracle}

Configs ==
    [dbms : ConfigDbms, user : {<<"u","s","e","r">>}, password : {<<"p","a","s","s">>},
     host : HostNames, port : Ports, database : DatabaseNames]

\* what lies outside the program when the constructor runs: whether the
\* database file exists, whether the host name resolves, whether the port
\* accepts connections, which step of the connection setup fails (a missing
\* driver, a refused login, a failed reflection), and the rows of the table
SetupFailures == {"none", "create_engine", "inspect", "reflect"}

Environments ==
    [file_exists : BOOLEAN, host_known : BOOLEAN, port_open : BOOLEAN,
     fails_at : SetupFailures, table_rows : 0..MaxTableRows]

\* os.path.exists(path)
PathExists(path, e) == path # <<>> /\ e.file_exists

\* sock.connect_ex(...): 0 when connected, an errno otherwise
connect_ex(e) == IF e.port_open THEN 0 ELSE 111

\* faulty variant: a port that accepts the connection is taken as closed
PortRefusedInverted(code) == code = 0

\* `if is_port_open:` on the value of connect_ex
PortRefused(code) == code # 0

\* lines 161-186: whether the constructor goes on to the connection setup
CheckServer(cfg, e) ==
    IF lower(cfg.dbms) = Sqlite
    THEN [proceed |-> PathExists(cfg.database, e), events |-> <<"os.path.exists">>]
    ELSE IF cfg.host = <<>> THEN [proceed |-> FALSE, events |-> <<>>]
    ELSE IF ~Truthy(cfg.port) THEN [proceed |-> FALSE, events |-> <<>>]
    ELSE IF ~e.host_known THEN [proceed |-> FALSE, events |-> <<"connect_ex">>]
    ELSE [proceed |-> ~PortRefused(connect_ex(e)), events |-> <<"connect_ex">>]

DatabaseObject(raised, connected, events) ==
    [state |-> IF raised = "none" THEN "constructed" ELSE "raised",
     raised |-> raised, is_connected |-> connected, events |-> events]

\* lines 188-193: _create_engine, _create_session, _setup, is_connected = True
ConnectionSetup(cfg, e, ev) ==
    LET url == _get_db_url(cfg.dbms, cfg.user, cfg.password, cfg.host,
                           cfg.port, cfg.database)
        ev1 == Append(ev, "_get_db_url")
        ev2 == Append(ev1, "create_engine")
        ev3 == Append(ev2, "inspect")
        ev4 == Append(ev3, "reflect")
    IN  IF url.kind # "value" THEN DatabaseObject(url.kind, FALSE, ev1)
        ELSE IF e.fails_at = "create_engine"
        THEN DatabaseObject("NoSuchModuleError", FALSE, ev2)
        ELSE IF e.fails_at = "inspect"
        THEN DatabaseObject("OperationalError", FALSE, ev3)
        ELSE IF e.fails_at = "reflect"
        THEN DatabaseObject("OperationalError", FALSE, ev4)
        ELSE DatabaseObject("none", TRUE, ev4)

Database_init(cfg, e) ==
    LET chk == CheckServer(cfg, e)
    IN  IF ~chk.proceed
        THEN DatabaseObject("none", FALSE, chk.events)
        ELSE ConnectionSetup(cfg, e, chk.events)

(***************************************************************************)
(* Database.run_query (orm.py 256-303).                                    *)
(***************************************************************************)
QueryKinds == {"composed", "raw"}
Limits == {<<>>} \cup {<<n>> : n \in 0..MaxLimit}

TableRows(e) == 1..e.table_rows

Min(a, b) == IF a <= b THEN a ELSE b

\* the results the engine may give for the query, limited or not: LIMIT n
\* keeps n of the rows, or all when there are fewer
QueryResults(e, limit) ==
    IF limit = <<>> THEN {TableRows(e)}
    ELSE {S \in SUBSET TableRows(e) :
            Cardinality(S) = Min(limit[1], Cardinality(TableRows(e)))}

\* faulty variant: the limit is applied to a raw string as well
RejectsNothing(kind, limit) == FALSE

\* isinstance(query, str) and limit is not None
RejectsLimitOnString(kind, limit) == kind = "raw" /\ limit # <<>>

QueryOutcome(kind, limit, raised, result) ==
    [state |-> "called", kind |-> kind, limit |-> limit, raised |-> raised,
     result |-> result]

(***************************************************************************)
(* Constructing a Database and running queries on it.                      *)
(***************************************************************************)
InitDb ==
    /\ config \in Configs
    /\ env \in Environments
    /\ db = NotConstructed
    /\ rq = NotCalled
    /\ schemasArg = <<>>
    /\ querier = NotConstructed
    /\ InterfaceIdle
    /\ urlArgs = <<>>
    /\ urlResult = NoUrlCall
    /\ query = [table |-> TableVisits, limit |-> FALSE]
    /\ rows = {}
    /\ batch_size = 0
    /\ pc = "idle"
    /\ error = "none"
    /\ conditions = <<>>
    /\ executed = <<>>
    /\ batches = <<>>
    /\ requests = 0

\* Database(config)
ConstructDatabase ==
    /\ db = NotConstructed
    /\ db' = Database_init(config, env)
    /\ UNCHANGED <<config, env, rq, querierVars, batchVars, urlVars,
                   interfaceVars>>

\* db.run_query(query, limit=limit) on the constructed object
run_query ==
    /\ db.state = "constructed"
    /\ rq = NotCalled
    /\ \E kind \in QueryKinds, limit \in Limits :
          IF RejectsLimitOnString(kind, limit)
          THEN rq' = QueryOutcome(kind, limit, "ValueError", {})
          ELSE IF ~db.is_connected
          THEN rq' = QueryOutcome(kind, limit, "AttributeError", {})
          ELSE \E result \in QueryResults(env, limit) :
                  rq' = QueryOutcome(kind, limit, "none", result)
    /\ UNCHANGED <<config, env, db, querierVars, batchVars, urlVars,
                   interfaceVars>>

NextDb == ConstructDatabase \/ run_query

SpecDb == InitDb /\ [][NextDb]_vars
(***************************************************************************)
(* Properties of Database.run_query and of the Database constructor.       *)
(***************************************************************************)
QueryCalled == rq # NotCalled

\* C11 as stated: a raw SQL string run with a limit on a connected database
\* returns a result of at most that many rows.
C11_RawStringHonoursLimit ==
    (QueryCalled /\ db.is_connected /\ rq.kind = "raw" /\ rq.limit # <<>>) =>
        /\ rq.raised = "none"
        /\ Cardinality(rq.result) <= rq.limit[1]

\* C11 (amended): run_query on a connected database accepts a composed
\* query and a raw SQL string alike and returns all rows when no limit is
\* given; a limit n on a composed query returns min(n, row count) of its
\* rows; a limit on a raw SQL string raises ValueError and returns nothing.
C11_LimitOnlyOnComposedQuery ==
    QueryCalled =>
        /\ (rq.kind = "raw" /\ rq.limit # <<>>) =>
              rq.raised = "ValueError" /\ rq.result = {}
        /\ (db.is_connected /\ rq.limit = <<>>) =>
              rq.raised = "none" /\ rq.result = 1..env.table_rows
        /\ (db.is_connected /\ rq.kind = "composed" /\ rq.limit # <<>>) =>
              /\ rq.raised = "none"
              /\ rq.result \subseteq 1..env.table_rows
              /\ Cardinality(rq.result) <= rq.limit[1]
              /\ Cardinality(rq.result) = rq.limit[1] \/ rq.result = 1..env.table_rows

C11_Witness ==
    /\ QueryCalled
    /\ db.is_connected
    /\ env.table_rows >= 2
    /\ rq.kind = "raw"
    /\ rq.limit = <<1>>
    /\ rq.raised = "ValueError"

DatabaseCalled == db # NotConstructed

UnsupportedKind == \A name \in SupportedNames : ~NamesEngine(config.dbms, name)

SqliteKind == NamesEngine(config.dbms, Sqlite)

\* the configuration errors of the constructor
ConfigurationError ==
    \/ UnsupportedKind
    \/ ~SqliteKind /\ (config.host = <<>> \/ config.port = <<>>)
    \/ SqliteKind /\ ~(config.database # <<>> /\ env.file_exists)

\* C12: constructing a Database with a configuration error raises no
\* exception and leaves the object constructed with is_connected False.
C12_ConfigErrorNeverRaises ==
    (DatabaseCalled /\ ConfigurationError) =>
        /\ db.state = "constructed"
        /\ db.raised = "none"
        /\ db.is_connected = FALSE

PositionsOf(ev, names) == {i \in 1..Len(ev) : ev[i] \in names}

\* C13: for an unsupported engine kind no reachability probe and no engine
\* creation happens before the kind has been validated.
C13_KindValidatedBeforeConnecting ==
    (DatabaseCalled /\ UnsupportedKind) =>
        \A i \in PositionsOf(db.events, {"connect_ex", "create_engine"}) :
            \E j \in PositionsOf(db.events, {"_get_db_url"}) : j < i

ProbeMade == ~SqliteKind /\ config.host # <<>> /\ config.port \notin {<<>>, <<0>>}

CheckPassed ==
    \/ SqliteKind /\ config.database # <<>> /\ env.file_exists
    \/ ProbeMade /\ env.host_known /\ env.port_open

SetupEvents == {"_get_db_url", "create_engine", "inspect", "reflect"}

\* C14: the connection setup is attempted only after the reachability probe
\* (for sqlite the file check) has succeeded; a failed probe raises nothing,
\* creates no engine or session and leaves is_connected False; is_connected
\* is True only after engine, session and reflection have completed.
C14_SetupOnlyAfterProbe ==
    DatabaseCalled =>
        /\ PositionsOf(db.events, SetupEvents) # {} =>
              /\ CheckPassed
              /\ db.events[1] \in {"os.path.exists", "connect_ex"}
              /\ \A i \in PositionsOf(db.events, SetupEvents) : i > 1
        /\ (ProbeMade /\ ~(env.host_known /\ env.port_open)) =>
              /\ db.state = "constructed"
              /\ db.raised = "none"
              /\ db.is_connected = FALSE
              /\ db.events = <<"connect_ex">>
        /\ db.is_connected =>
              /\ db.raised = "none"
              /\ Len(db.events) = 5
              /\ SubSeq(db.events, 2, 5) =
                    <<"_get_db_url", "create_engine", "inspect", "reflect">>

C14_Witness ==
    /\ DatabaseCalled
    /\ ProbeMade
    /\ env.host_known
    /\ ~env.port_open
    /\ db.state = "constructed"
    /\ db.is_connected = FALSE
    /\ db.events = <<"connect_ex">>

(***************************************************************************)
(* The shape of the partitioner's conditions (orm.py 428-451).             *)
(***************************************************************************)
\* the boundaries (dividers) the partitioner computed for the query
Boundaries == _compute_query_dividers(rows, batch_size).dividers

\* C20: the partitioner produces exactly one filter condition per boundary,
\* in boundary order: every non-final condition is `index >= start AND
\* index < next_start`, whatever the next start is, and only the final
\* condition is the unbounded `index >= start`.
C20_OneBoundedConditionPerBoundary ==
    conditions # <<>> =>
        /\ Len(conditions) = Len(Boundaries)
        /\ \A k \in 1..Len(conditions) :
              /\ conditions[k].lo = Boundaries[k]
              /\ conditions[k].hi =
                    IF k < Len(conditions) THEN <<Boundaries[k + 1]>> ELSE <<>>

(***************************************************************************)
(* DatasetQuerier (base.py 69-303): the constructor builds the             *)
(* configuration object, the Database, and one accessor per reflected      *)
(* table of the schemas list_schemas returns.  Schema and table names are  *)
(* plain strings here; nothing in this part looks inside them.             *)
(***************************************************************************)
\* the fields of the DatasetQuerierConfig dataclass (orm.py 123-128)
DataclassFields == {"dbms", "user", "password", "host", "port", "database"}

\* the keyword arguments DatasetQuerier.__init__ passes to it
\* (base.py 116-124)
ConfigKeywords(args, schemas) ==
    [database |-> args.database, user |-> args.user,
     password |-> args.password, dbms |-> args.dbms, host |-> args.host,
     port |-> args.port, schemas |-> schemas]

\* the generated __init__ of the dataclass: a keyword that is not a field
\* is a TypeError
DatasetQuerierConfig_init(kwargs) ==
    IF DOMAIN kwargs \subseteq DataclassFields
    THEN [raised |-> "none", value |-> kwargs]
    ELSE [raised |-> "TypeError", value |-> <<>>]

\* the values of the schemas argument: None, one name, or a list of names
NoSchemas == [kind |-> "None"]
SchemasArgs ==
    {NoSchemas, [kind |-> "str", name |-> "icu"],
     [kind |-> "list", names |-> <<"icu", "hosp">>],
     [kind |-> "list", names |-> <<"other">>]}

\* what inspector.get_schema_names() may list, in the database's order
SchemaListings == {<<"main">>, <<"hosp", "icu">>, <<"hosp", "icu", "other">>}

\* the tables reflected in a schema
TablesOf(schema) ==
    IF schema = "main" THEN {"test_table"}
    ELSE IF schema = "hosp" THEN {"patients", "admissions"}
    ELSE IF schema = "icu" THEN {"icustays"}
    ELSE {}

QuerierEnvironments ==
    [file_exists : BOOLEAN, host_known : BOOLEAN, port_open : BOOLEAN,
     fails_at : SetupFailures, table_rows : 0..MaxTableRows,
     schemas : SchemaListings]

\* [schema for schema in all_schemas if schema in schemas_to_use]
KeepListed(all_schemas, schemas_to_use) ==
    SelectSeq(all_schemas,
              LAMBDA sc : \E i \in 1..Len(schemas_to_use) :
                             schemas_to_use[i] = sc)

\* list_schemas (base.py 131-148), on a configuration object cfg
list_schemas(cfg, all_schemas) ==
    IF "schemas" \notin DOMAIN cfg
    THEN [raised |-> "AttributeError", value |-> <<>>]
    ELSE IF cfg.schemas.kind = "None"
    THEN [raised |-> "none", value |-> all_schemas]
    ELSE IF cfg.schemas.kind = "str"
    THEN [raised |-> "none",
          value |-> KeepListed(all_schemas, <<cfg.schemas.name>>)]
    ELSE [raised |-> "none",
          value |-> KeepListed(all_schemas, cfg.schemas.names)]

\* _setup_table_methods (base.py 279-303): one accessor per table of each
\* listed schema
_setup_table_methods(cfg, all_schemas) ==
    LET listed == list_schemas(cfg, all_schemas)
    IN  [raised |-> listed.raised,
         schemas |-> listed.value,
         accessors |-> UNION {{<<listed.value[i], t>> :
                                  t \in TablesOf(listed.value[i])} :
                              i \in 1..Len(listed.value)}]

QuerierObject(raised, schemas, accessors) ==
    [state |-> IF raised = "none" THEN "constructed" ELSE "raised",
     raised |-> raised, schemas |-> schemas, accessors |-> accessors]

\* DatasetQuerier.__init__ (base.py 106-129): the querier and its self.db
DatasetQuerier_init(args, schemas, e) ==
    LET cfg == DatasetQuerierConfig_init(ConfigKeywords(args, schemas))
    IN  IF cfg.raised # "none"
        THEN [querier |-> QuerierObject(cfg.raised, <<>>, {}),
              db |-> NotConstructed]
        ELSE LET database == Database_init(cfg.value, e)
             IN  IF database.state = "raised"
                 THEN [querier |-> QuerierObject(database.raised, <<>>, {}),
                       db |-> database]
                 ELSE IF ~database.is_connected
                 THEN [querier |-> QuerierObject("none", <<>>, {}),
                       db |-> database]
                 ELSE LET m == _setup_table_methods(cfg.value, e.schemas)
                      IN  [querier |->
                              QuerierObject(m.raised, m.schemas, m.accessors),
                           db |-> database]

InitQuerier ==
    /\ config \in Configs
    /\ env \in QuerierEnvironments
    /\ schemasArg \in SchemasArgs
    /\ querier = NotConstructed
    /\ db = NotConstructed
    /\ rq = NotCalled
    /\ InterfaceIdle
    /\ urlArgs = <<>>
    /\ urlResult = NoUrlCall
    /\ query = [table |-> TableVisits, limit |-> FALSE]
    /\ rows = {}
    /\ batch_size = 0
    /\ pc = "idle"
    /\ error = "none"
    /\ conditions = <<>>
    /\ executed = <<>>
    /\ batches = <<>>
    /\ requests = 0

\* DatasetQuerier(dbms=..., ..., schemas=...)
ConstructDatasetQuerier ==
    /\ querier = NotConstructed
    /\ LET made == DatasetQuerier_init(config, schemasArg, env)
       IN  /\ querier' = made.querier
           /\ db' = made.db
    /\ UNCHANGED <<config, env, rq, schemasArg, batchVars, urlVars,
                   interfaceVars>>

NextQuerier == ConstructDatasetQuerier

SpecQuerier == InitQuerier /\ [][NextQuerier]_vars

(***************************************************************************)
(* Properties of the DatasetQuerier constructor.                           *)
(***************************************************************************)
QuerierCalled == querier # NotConstructed

\* the names the schemas argument allows
AllowedNames ==
    IF schemasArg.kind = "str" THEN {schemasArg.name}
    ELSE IF schemasArg.kind = "list"
    THEN {schemasArg.names[i] : i \in 1..Len(schemasArg.names)}
    ELSE {}

\* the database's schemas the argument selects, in listing order
SelectedSchemas ==
    IF schemasArg.kind = "None" THEN env.schemas
    ELSE SelectSeq(env.schemas, LAMBDA sc : sc \in AllowedNames)

SchemaNames == {"main", "hosp", "icu", "other"}
TableNames == {"test_table", "patients", "admissions", "icustays"}

\* <schema>.<table> for every reflected table of the given schemas
AccessorsOf(schemas) ==
    {a \in SchemaNames \X TableNames :
        /\ \E i \in 1..Len(schemas) : schemas[i] = a[1]
        /\ a[2] \in TablesOf(a[1])}

\* the database of these arguments can be connected to
Connectable == Database_init(config, env).is_connected

\* C18: list_schemas returns every schema of the database when no
\* allow-list is configured, and otherwise exactly the database's schemas
\* named in the allow-list (one string counting as a one-element list), in
\* the database's listing order; table accessors exist only for the
\* schemas it returns.
C18_SchemasFollowAllowList ==
    QuerierCalled /\ Connectable =>
        /\ querier.state = "constructed"
        /\ querier.schemas = SelectedSchemas
        /\ querier.accessors = AccessorsOf(SelectedSchemas)

\* C19: DatasetQuerier(dbms='sqlite', database=<existing file>) with no
\* other argument does not raise, leaves the database connected, and has
\* an accessor for every reflected table.
C19_SqliteQuerierConstructs ==
    /\ QuerierCalled
    /\ config.dbms = Sqlite
    /\ PathExists(config.database, env)
    /\ env.fails_at = "none"
    /\ schemasArg = NoSchemas
    => /\ querier.state = "constructed"
       /\ db.state = "constructed"
       /\ db.is_connected
       /\ querier.accessors = AccessorsOf(env.schemas)

(***************************************************************************)
(* QueryInterface (interface.py 19-267).  A query is [op, name, args]: a   *)
(* table, or an operation applied to the queries in args.  The held data   *)
(* (_data) is NoData, a frame, or a batch generator.  A frame is the set   *)
(* of the table's row numbers it holds.                                    *)
(***************************************************************************)
MaxInterfaces == 3
MaxCalls == 3

Table(name) == [op |-> "table", name |-> name, args |-> <<>>]

\* the query objects cycquery.ops builds: Join(...)(query), ops(query),
\* Union(other)(query), Union(other, union_all=True)(query)
Applied(op, args) == [op |-> op, name |-> "", args |-> args]

NoData == [kind |-> "None"]
DataFrame(frame) == [kind |-> "DataFrame", rows |-> frame]

\* a generator: created (body not started), suspended at a yield with the
\* batches still to come, or finished
Generator(state, pending) ==
    [kind |-> "Generator", state |-> state, pending |-> pending]

\* QueryInterface.__init__ (interface.py 34-45)
QueryInterface_init(database, query_) ==
    [database |-> database, query |-> query_, data |-> NoData]

\* faulty variant: the operation also rebinds the receiver's own query
ComposeInPlace(objs, self, query_) ==
    Append([objs EXCEPT ![self].query = query_],
           QueryInterface_init(objs[self].database, query_))

\* return QueryInterface(self.database, query): a new object on the heap
Compose(objs, self, query_) ==
    Append(objs, QueryInterface_init(objs[self].database, query_))

\* what a call leaves in the log: the method, the receiver, the data the
\* receiver held before, the file format asked for, the exception raised,
\* the value returned, the files written and the database export
\* operations called
CallOutcome(op, self, format, raised, returned, written, exports) ==
    [op |-> op, self |-> self, held |-> interfaces[self].data,
     format |-> format, raised |-> raised, returned |-> returned,
     written |-> written, exports |-> exports]

MayCall == Len(calls) < MaxCalls

\* the tables join() may be given directly
JoinTables == {Table("labs")}

\* join / ops / union / union_all leave a new object and return it
Returns(self, op, query_) ==
    /\ MayCall
    /\ Len(interfaces) < MaxInterfaces
    /\ interfaces' = Compose(interfaces, self, query_)
    /\ calls' = Append(calls, CallOutcome(op, self, "", "none",
                                          <<Len(interfaces) + 1>>, {}, <<>>))
    /\ UNCHANGED <<batchVars, urlVars, dbVars, querierVars>>

\* the other QueryInterface objects a call on self may be given
Others(self) == DOMAIN interfaces \ {self}

\* join(join_table): join_table is a table or another QueryInterface
QueryInterface_join ==
    \E self \in DOMAIN interfaces :
        \E join_table \in JoinTables
                          \cup {interfaces[o].query : o \in Others(self)} :
            Returns(self, "join",
                    Applied("join", <<interfaces[self].query, join_table>>))

\* ops(ops)
QueryInterface_ops ==
    \E self \in DOMAIN interfaces :
        Returns(self, "ops", Applied("ops", <<interfaces[self].query>>))

\* union(other)
QueryInterface_union ==
    \E self \in DOMAIN interfaces : \E other \in Others(self) :
        Returns(self, "union",
                Applied("union", <<interfaces[self].query,
                                   interfaces[other].query>>))

\* union_all(other)
QueryInterface_union_all ==
    \E self \in DOMAIN interfaces : \E other \in Others(self) :
        Returns(self, "union_all",
                Applied("union_all", <<interfaces[self].query,
                                       interfaces[other].query>>))

\* run(limit=..., batch_mode=...) (interface.py 207-222)
RunLimits == {<<>>, <<1>>}

Ran(self, data) ==
    /\ interfaces' = [interfaces EXCEPT ![self].data = data]
    /\ calls' = Append(calls, CallOutcome("run", self, "", "none", <<data>>,
                                          {}, <<>>))

QueryInterface_run ==
    /\ MayCall
    /\ \E self \in DOMAIN interfaces :
          \/ \E limit \in RunLimits : \E result \in QueryResults(env, limit) :
                Ran(self, DataFrame(result))
          \/ Ran(self, Generator("created", <<>>))
    /\ UNCHANGED <<batchVars, urlVars, dbVars, querierVars>>

\* clear_data() (interface.py 261-267)
QueryInterface_clear_data ==
    /\ MayCall
    /\ \E self \in DOMAIN interfaces :
          /\ interfaces' = [interfaces EXCEPT ![self].data = NoData]
          /\ calls' = Append(calls, CallOutcome("clear_data", self, "", "none",
                                                <<>>, {}, <<>>))
    /\ UNCHANGED <<batchVars, urlVars, dbVars, querierVars>>

\* another client of the database adds a row to the table
TableChanges ==
    /\ env.table_rows < MaxTableRows
    /\ env' = [env EXCEPT !.table_rows = env.table_rows + 1]
    /\ UNCHANGED <<config, db, rq, batchVars, urlVars, querierVars,
                   interfaceVars>>

(***************************************************************************)
(* QueryInterface.save (interface.py 224-259).  A written file is          *)
(* [file, rows]; a file name is [path, batch, format], batch being <<i>>   *)
(* for `{path}/batch-{i:03d}` and <<>> for the path itself.                *)
(***************************************************************************)
SavePaths == {"out"}
SaveFormats == {"csv", "parquet", "donkey"}

FileAt(path, batch, format) ==
    [path |-> path, batch |-> batch, format |-> format]

\* the dataframe export facility: writes the frame it is given, and
\* returns the path written; a format it does not know is a ValueError
save_dataframe(frame, path, batch, format) ==
    IF format \in {"csv", "parquet"}
    THEN [raised |-> "none",
          written |-> {[file |-> FileAt(path, batch, format),
                        rows |-> frame]},
          returned |-> <<FileAt(path, batch, format)>>]
    ELSE [raised |-> "ValueError", written |-> {}, returned |-> <<>>]

\* Database.save_query_to_csv / save_query_to_parquet (orm.py 305-360):
\* the query is executed now and its rows are written
ExportQuery(format, path, e) ==
    {[file |-> FileAt(path, <<>>, format), rows |-> TableRows(e)]}

\* faulty variant: any format other than csv is exported as parquet
ExportOperationParquetDefault(format) ==
    IF format = "csv" THEN <<"save_query_to_csv">>
    ELSE <<"save_query_to_parquet">>

\* if file_format == "csv" ... elif file_format == "parquet" ... else raise
ExportOperation(format) ==
    IF format = "csv" THEN <<"save_query_to_csv">>
    ELSE IF format = "parquet" THEN <<"save_query_to_parquet">>
    ELSE <<>>

SaveOutcome(data, raised, returned, written, exports) ==
    [data |-> data, raised |-> raised, returned |-> returned,
     written |-> written, exports |-> exports]

\* "Save without running" (interface.py 251-259), after `written` files
SaveWithoutRunning(obj, data, path, format, e, written) ==
    LET operation == ExportOperation(format)
    IN  IF operation = <<>>
        THEN SaveOutcome(data, "ValueError", <<>>, written, <<>>)
        ELSE SaveOutcome(data, "none", <<FileAt(path, <<>>, format)>>,
                         written \cup ExportQuery(format, path, e),
                         <<[op |-> operation[1], query |-> obj.query]>>)

\* faulty variant: a held frame is not recognised
HoldsNoFrame(data) == FALSE

\* self._data is not None and isinstance(self._data, pd.DataFrame)
HoldsFrame(data) == data.kind = "DataFrame"

\* the ways run_query_batch cuts n rows into batches, in row order
Partitions(n) ==
    {<<1..n>>} \cup {<<1..k, (k + 1)..n>> : k \in 1..(n - 1)}

\* what enumerating the generator gives: the batches it yields, or the
\* exception its body raises (orm.py 485-496, 419-421: no rows)
GeneratorRuns(gen, e) ==
    IF gen.state = "created"
    THEN IF e.table_rows = 0
         THEN {[raised |-> "ValueError", yields |-> <<>>]}
         ELSE {[raised |-> "none", yields |-> bs] :
                  bs \in Partitions(e.table_rows)}
    ELSE {[raised |-> "none", yields |-> gen.pending]}

\* for i, df in enumerate(self._data): save_dataframe(df, batch-i, ...)
SaveBatches(yields, path, format) ==
    UNION {save_dataframe(yields[i], path, <<i - 1>>, format).written :
              i \in 1..Len(yields)}

\* every way save(path, file_format) can go for the object
SaveOutcomes(obj, path, format, e) ==
    IF HoldsFrame(obj.data)
    THEN LET saved == save_dataframe(obj.data.rows, path, <<>>, format)
         IN  {SaveOutcome(obj.data, saved.raised, saved.returned,
                          saved.written, <<>>)}
    ELSE IF obj.data.kind = "Generator"
    THEN {IF r.raised # "none"
          THEN SaveOutcome(Generator("finished", <<>>), r.raised, <<>>, {},
                           <<>>)
          ELSE IF r.yields # <<>> /\ format \notin {"csv", "parquet"}
          THEN SaveOutcome(Generator("suspended", Tail(r.yields)),
                           "ValueError", <<>>, {}, <<>>)
          ELSE SaveWithoutRunning(obj, Generator("finished", <<>>), path,
                                  format, e,
                                  SaveBatches(r.yields, path, format)) :
             r \in GeneratorRuns(obj.data, e)}
    ELSE {SaveWithoutRunning(obj, obj.data, path, format, e, {})}

QueryInterface_save ==
    /\ MayCall
    /\ \E self \in DOMAIN interfaces, path \in SavePaths,
          format \in SaveFormats :
          \E out \in SaveOutcomes(interfaces[self], path, format, env) :
             /\ interfaces' = [interfaces EXCEPT ![self].data = out.data]
             /\ calls' = Append(calls,
                                CallOutcome("save", self, format, out.raised,
                                            out.returned, out.written,
                                            out.exports))
    /\ UNCHANGED <<batchVars, urlVars, dbVars, querierVars>>

(***************************************************************************)
(* A QueryInterface on a table of a connected sqlite database, as a table  *)
(* accessor returns it (base.py 274-277), and the calls made on it.        *)
(***************************************************************************)
InitInterface ==
    /\ config \in {c \in Configs : /\ c.dbms = Sqlite
                                   /\ c.database # <<>>
                                   /\ c.host = <<>>
                                   /\ c.port = <<>>}
    /\ env \in {e \in Environments : /\ e.file_exists
                                     /\ e.fails_at = "none"
                                     /\ ~e.host_known
                                     /\ ~e.port_open}
    /\ db = Database_init(config, env)
    /\ interfaces = <<QueryInterface_init(db, Table("visits"))>>
    /\ calls = <<>>
    /\ rq = NotCalled
    /\ schemasArg = <<>>
    /\ querier = NotConstructed
    /\ urlArgs = <<>>
    /\ urlResult = NoUrlCall
    /\ query = [table |-> TableVisits, limit |-> FALSE]
    /\ rows = {}
    /\ batch_size = 0
    /\ pc = "idle"
    /\ error = "none"
    /\ conditions = <<>>
    /\ executed = <<>>
    /\ batches = <<>>
    /\ requests = 0

NextInterface ==
    \/ QueryInterface_join
    \/ QueryInterface_ops
    \/ QueryInterface_union
    \/ QueryInterface_union_all
    \/ QueryInterface_run
    \/ QueryInterface_save
    \/ QueryInterface_clear_data
    \/ TableChanges

SpecInterface == InitInterface /\ [][NextInterface]_vars

(***************************************************************************)
(* Properties of QueryInterface.                                           *)
(***************************************************************************)
ComposeOps == {"join", "ops", "union", "union_all"}

LastCall == calls[Len(calls)]

\* this step is a call of join, ops, union or union_all
ComposeStep ==
    /\ Len(calls') = Len(calls) + 1
    /\ calls'[Len(calls')].op \in ComposeOps

\* C15: every join, ops, union and union_all call returns a new
\* QueryInterface on the same database holding no data, and leaves the
\* query and the held data of the receiver (and of every other object) as
\* they were, so one base query serves several independent pipelines.
C15_CompositionLeavesReceiver ==
    [][ComposeStep =>
          LET made == calls'[Len(calls')]
              new == Len(interfaces) + 1
          IN  /\ Len(interfaces') = new
              /\ made.returned = <<new>>
              /\ \A i \in DOMAIN interfaces : interfaces'[i] = interfaces[i]
              /\ interfaces'[new].database = interfaces[made.self].database
              /\ interfaces'[new].data = NoData
              /\ interfaces'[new].query # interfaces[made.self].query]_vars

\* two pipelines were started from the base object while it held a result
C15_Witness ==
    /\ \E j, k \in DOMAIN calls :
          /\ j < k
          /\ calls[j].op \in ComposeOps /\ calls[j].self = 1
          /\ calls[k].op \in ComposeOps /\ calls[k].self = 1
          /\ calls[j].held.kind = "DataFrame"
          /\ interfaces[calls[j].returned[1]].query
                # interfaces[calls[k].returned[1]].query
    /\ interfaces[1].query = Table("visits")
    /\ interfaces[1].data.kind = "DataFrame"

\* what reading a written file back gives
ReadBack(written, file) == {f.rows : f \in {g \in written : g.file = file}}

\* C16: save on an interface holding a frame writes exactly that frame
\* (reading the file back gives the held rows) and returns without any
\* database export, that is without executing the query again.
C16_SaveWritesHeldFrame ==
    \A k \in DOMAIN calls :
        LET c == calls[k]
        IN  c.op = "save" /\ c.held.kind = "DataFrame" =>
                /\ c.exports = <<>>
                /\ c.format \in {"csv", "parquet"} =>
                      /\ c.raised = "none"
                      /\ c.returned # <<>>
                      /\ ReadBack(c.written, c.returned[1]) = {c.held.rows}
                      /\ \A f \in c.written : f.file = c.returned[1]

\* the held frame was saved after the table had changed under it
C16_Witness ==
    /\ calls # <<>>
    /\ LastCall.op = "save"
    /\ LastCall.held.kind = "DataFrame"
    /\ LastCall.held.rows # TableRows(env)
    /\ LastCall.raised = "none"
    /\ ReadBack(LastCall.written, LastCall.returned[1]) = {LastCall.held.rows}

MatchingExport(format) ==
    IF format = "csv" THEN "save_query_to_csv" ELSE "save_query_to_parquet"

\* C17: after clear_data() the interface holds no data; save() on an
\* interface holding no data raises ValueError without any database
\* export for a format other than csv or parquet, and for csv or parquet
\* calls exactly the matching export once and returns its path.
C17_ClearThenSaveByFormat ==
    /\ calls # <<>> /\ LastCall.op = "clear_data" =>
          interfaces[LastCall.self].data = NoData
    /\ \A k \in DOMAIN calls :
          LET c == calls[k]
          IN  c.op = "save" /\ c.held = NoData =>
                 IF c.format \in {"csv", "parquet"}
                 THEN /\ c.raised = "none"
                      /\ Len(c.exports) = 1
                      /\ c.exports[1].op = MatchingExport(c.format)
                      /\ c.exports[1].query = interfaces[c.self].query
                      /\ c.returned # <<>>
                      /\ \E f \in c.written : f.file = c.returned[1]
                 ELSE /\ c.raised = "ValueError"
                      /\ c.exports = <<>>
                      /\ c.written = {}

\* run, clear_data, then save with an unknown format on the same object
C17_Witness ==
    /\ Len(calls) = 3
    /\ calls[1].op = "run" /\ calls[2].op = "clear_data"
    /\ calls[3].op = "save"
    /\ calls[2].self = calls[1].self /\ calls[3].self = calls[1].self
    /\ calls[2].held.kind = "DataFrame"
    /\ calls[3].held = NoData
    /\ calls[3].format = "donkey"
    /\ calls[3].raised = "ValueError"

(***************************************************************************)
(* Where the partitioner puts its boundaries (orm.py 408-426), and which   *)
(* queries the generator refuses (orm.py 485-488).                         *)
(***************************************************************************)
\* the walk over the sorted distinct values with a running row count since
\* the last boundary: a value whose count would push the total over the
\* maximum starts a new batch and is the boundary
RECURSIVE RunningCountWalk(_, _, _, _, _, _)
RunningCountWalk(vals, cd, maximum, j, running, out) ==
    IF j > Len(vals) THEN out
    ELSE IF running + cd[vals[j]] > maximum
         THEN RunningCountWalk(vals, cd, maximum, j + 1, cd[vals[j]],
                               Append(out, vals[j]))
         ELSE RunningCountWalk(vals, cd, maximum, j + 1,
                               running + cd[vals[j]], out)

BoundariesByRunningCount ==
    LET cd == count_data(rows)
        vals == sort_values(DOMAIN cd)
    IN  IF vals = <<>> THEN <<>>
        ELSE RunningCountWalk(vals, cd, batch_size, 2, cd[vals[1]],
                              <<vals[1]>>)

\* C21: walking the distinct index values in ascending order with a
\* running row count since the last boundary, a new boundary starts
\* exactly when the next value's count would push the total over
\* batch_size, the boundary recorded is that next value, and the smallest
\* value starts the first boundary.
C21_BoundaryIsValueStartingBatch ==
    conditions # <<>> => Boundaries = BoundariesByRunningCount

\* C22: the boundaries computed by the partitioner are strictly increasing
\* (none is repeated), so every batch yielded by run_query_batch holds at
\* least one row.
C22_BoundariesStrictlyIncrease ==
    conditions # <<>> =>
        /\ \A k \in 1..(Len(Boundaries) - 1) : Boundaries[k] < Boundaries[k + 1]
        /\ \A i \in BatchIndexes : batches[i] # {}

\* C23: run_query_batch raises NotImplementedError for a limited query only
\* if the query has a row-limiting clause: a query without LIMIT is never
\* rejected, whatever its table, column or label names are.
C23_OnlyLimitedQueriesRejected ==
    error = "NotImplementedError" => query.limit

(***************************************************************************)
(* What save does with each kind of held data (interface.py 244-259).      *)
(***************************************************************************)
\* the batch numbers of the files a call wrote
BatchNumbers(written) ==
    {f.file.batch[1] : f \in {g \in written : g.file.batch # <<>>}}

\* C24: for any sequence of run, save and clear_data calls, save runs the
\* un-batched query through the database export only when no result is
\* held; with a batch generator held it writes one file per batch not yet
\* consumed, numbered consecutively from batch-000, and does not also
\* execute and export the whole query.
C24_ExportOnlyWhenNothingHeld ==
    \A k \in DOMAIN calls :
        LET c == calls[k]
        IN  c.op = "save" =>
               /\ c.exports # <<>> => c.held = NoData
               /\ c.held.kind = "Generator" /\ c.raised = "none" =>
                     /\ \A f \in c.written : f.file.batch # <<>>
                     /\ BatchNumbers(c.written)
                           = 0..(Cardinality(c.written) - 1)
====
